---- MODULE Spec2Model ----
(***************************************************************************)
(* Playlist ingestion pipeline of the IPTV player: the M3U text parser     *)
(* (services/m3uParser.ts), the Xtream Codes API client                    *)
(* (services/xtreamApi.ts), the persistent store (services/storage.ts)     *)
(* and the usePlaylist hook (hooks/usePlaylist.ts) that orchestrates them. *)
(*                                                                         *)
(* JavaScript runs the hook on one event loop: every action below is one   *)
(* run-to-completion segment of code, from one suspension point (await,    *)
(* timer, storage or network callback, user call) to the next.             *)
(***************************************************************************)
EXTENDS Integers, Sequences, FiniteSets, TLC

(***************************************************************************)
(* Strings. A JavaScript string is a TLA+ string; characters are the       *)
(* one-character substrings.                                               *)
(***************************************************************************)
CharAt(s, i) == SubSeq(s, i, i)

StartsWith(s, p) == Len(s) >= Len(p) /\ SubSeq(s, 1, Len(p)) = p

\* String.prototype.trim's white space, as far as playlist texts use it.
IsSpace(c) == c \in {" ", "\t", "\r", "\n"}

Min(set) == CHOOSE m \in set : \A n \in set : m <= n

Max(set) == 0 - Min({0 - n : n \in set})

Trim(s) ==
    LET kept == {i \in 1..Len(s) : ~IsSpace(CharAt(s, i))}
    IN  IF kept = {} THEN "" ELSE SubSeq(s, Min(kept), Max(kept))

\* s.indexOf(p, from), 1-based; 0 when p does not occur at or after from.
IndexOfFrom(s, p, from) ==
    LET hits == {i \in from..(Len(s) - Len(p) + 1) : SubSeq(s, i, i + Len(p) - 1) = p}
    IN  IF hits = {} THEN 0 ELSE Min(hits)

IndexOf(s, p) == IndexOfFrom(s, p, 1)

Includes(s, p) == IndexOf(s, p) > 0

\* s.lastIndexOf(c), 1-based; 0 when c does not occur.
LastIndexOf(s, c) ==
    LET hits == {i \in 1..(Len(s) - Len(c) + 1) : SubSeq(s, i, i + Len(c) - 1) = c}
    IN  IF hits = {} THEN 0 ELSE Max(hits)

\* content.split('\n')
RECURSIVE Split(_)
Split(content) ==
    LET k == IndexOf(content, "\n")
    IN  IF k = 0 THEN <<content>>
        ELSE <<SubSeq(content, 1, k - 1)>> \o Split(SubSeq(content, k + 1, Len(content)))

\* The printable ASCII characters in code order: AsciiLow[i] has char code
\* 31 + i (32..95) and AsciiHigh[i] has char code 96 + i (97..126).
AsciiLow == " !\"#$%&'()*+,-./0123456789:;<=>?@ABCDEFGHIJKLMNOPQRSTUVWXYZ[\\]^_"

AsciiHigh == "abcdefghijklmnopqrstuvwxyz{|}~"

\* str.charCodeAt(i) for the characters playlist URLs are made of.
CharCode(c) ==
    IF Includes(AsciiLow, c) THEN 31 + IndexOf(AsciiLow, c) ELSE 96 + IndexOf(AsciiHigh, c)

(***************************************************************************)
(* services/m3uParser.ts                                                   *)
(***************************************************************************)
Uncategorized == "Uncategorized"

\* EXTINF_REGEX.test(line): /^#EXTINF:\s*-?\d+\s*,?\s*/ matches as soon as one
\* digit follows the marker, white space and an optional minus sign.
EXTINF_REGEX(line) ==
    /\ StartsWith(line, "#EXTINF:")
    /\ LET rest == {k \in 9..Len(line) : ~IsSpace(CharAt(line, k))}
           \* The first position after the marker that holds no white space.
           i == IF rest = {} THEN Len(line) + 1 ELSE Min(rest)
           j == IF i <= Len(line) /\ CharAt(line, i) = "-" THEN i + 1 ELSE i
       IN  j <= Len(line) /\ CharAt(line, j) \in {"0", "1", "2", "3", "4", "5", "6", "7", "8", "9"}

\* line.match(/key="([^"]*)"/): the leftmost key=" that a later quote closes.
extractAttribute(line, key) ==
    LET open  == key \o "=\""
        at    == IndexOf(line, open)
        from  == at + Len(open)
        close == IF at = 0 THEN 0 ELSE IndexOfFrom(line, "\"", from)
    IN  IF close = 0 THEN "" ELSE Trim(SubSeq(line, from, close - 1))

extractDisplayNameFirstComma(line) ==
    LET commaIdx == IndexOf(line, ",")
        rest     == Trim(SubSeq(line, commaIdx + 1, Len(line)))
    IN  IF commaIdx = 0 \/ rest = "" THEN "Unknown" ELSE rest

extractDisplayName(line) ==
    LET commaIdx == LastIndexOf(line, ",")
        rest     == Trim(SubSeq(line, commaIdx + 1, Len(line)))
    IN  IF commaIdx = 0 THEN "Unknown"
        ELSE IF rest = "" THEN "Unknown" ELSE rest

\* hash = ((hash << 5) - hash) + char; hash |= 0: 31 * hash + char wrapped to a
\* signed 32-bit integer, computed on the two 16-bit halves of hash.
HashStep(hash, char) ==
    LET lo   == hash % 65536
        hi   == (hash \div 65536) % 65536
        lo2  == (31 * lo) + char
        hi2  == ((31 * hi) + (lo2 \div 65536)) % 65536
    IN  ((IF hi2 >= 32768 THEN hi2 - 65536 ELSE hi2) * 65536) + (lo2 % 65536)

\* The loop of fastHash from character i on. The membership test makes the
\* evaluator compute each step's value before the next step starts.
RECURSIVE HashFrom(_, _, _)
HashFrom(str, i, hash) ==
    IF i > Len(str) THEN hash
    ELSE LET next == HashStep(hash, CharCode(CharAt(str, i)))
         IN  IF next \in Int THEN HashFrom(str, i + 1, next) ELSE 0

Base36Digits == "0123456789abcdefghijklmnopqrstuvwxyz"

\* Number.prototype.toString(36) of a non-negative integer.
RECURSIVE ToBase36(_)
ToBase36(n) ==
    IF n < 36 THEN CharAt(Base36Digits, n + 1)
    ELSE ToBase36(n \div 36) \o CharAt(Base36Digits, (n % 36) + 1)

AbsBase36Signed(hash) ==
    IF hash < 0 THEN "-" \o ToBase36(-hash) ELSE ToBase36(hash)

\* Math.abs(hash).toString(36); Math.abs(-2^31) is 2^31 = 36 * 59652323 + 20.
AbsBase36(hash) ==
    IF hash = (-2147483647) - 1 THEN ToBase36(59652323) \o CharAt(Base36Digits, 21)
    ELSE ToBase36(IF hash < 0 THEN -hash ELSE hash)

fastHash(str) == AbsBase36(HashFrom(str, 1, 0))

\* The inner loop of parseM3U: the index of the next non-empty, non-comment
\* line at or after j, or len + 1 when there is none.
RECURSIVE NextUrlLine(_, _)
NextUrlLine(lines, j) ==
    IF j > Len(lines) THEN j
    ELSE LET nextLine == Trim(lines[j])
         IN  IF nextLine # "" /\ ~StartsWith(nextLine, "#") THEN j
             ELSE NextUrlLine(lines, j + 1)

IsHttpUrlAny(url) == url # ""

IsHttpUrl(url) == url # "" /\ (StartsWith(url, "http://") \/ StartsWith(url, "https://"))

MakeChannelRawGroup(line, url) ==
    [id       |-> fastHash(url),
     name     |-> IF extractAttribute(line, "tvg-name") # ""
                  THEN extractAttribute(line, "tvg-name") ELSE extractDisplayName(line),
     url      |-> url,
     logo     |-> extractAttribute(line, "tvg-logo"),
     group    |-> extractAttribute(line, "group-title"),
     language |-> extractAttribute(line, "tvg-language")]

MakeChannel(line, url) ==
    LET tvgName == extractAttribute(line, "tvg-name")
        group   == extractAttribute(line, "group-title")
    IN  [id       |-> fastHash(url),
         name     |-> IF tvgName # "" THEN tvgName ELSE extractDisplayName(line),
         url      |-> url,
         logo     |-> extractAttribute(line, "tvg-logo"),
         group    |-> IF group # "" THEN group ELSE Uncategorized,
         language |-> extractAttribute(line, "tvg-language")]

RECURSIVE ParseFromKeepsUnended(_, _)
ParseFromKeepsUnended(lines, i) ==
    IF i > Len(lines) THEN <<>>
    ELSE LET line == Trim(lines[i])
         IN  IF EXTINF_REGEX(line)
             THEN LET j   == NextUrlLine(lines, i + 1)
                      url == IF j <= Len(lines) THEN Trim(lines[j]) ELSE ""
                  IN  (IF IsHttpUrl(url) \/ url = "" THEN <<MakeChannel(line, url)>> ELSE <<>>)
                      \o ParseFromKeepsUnended(lines, j + 1)
             ELSE ParseFromKeepsUnended(lines, i + 1)

\* The outer loop of parseM3U from line i on: the channels it pushes.
RECURSIVE ParseFrom(_, _)
ParseFrom(lines, i) ==
    IF i > Len(lines) THEN <<>>
    ELSE LET line == Trim(lines[i])
         IN  IF EXTINF_REGEX(line)
             THEN LET j   == NextUrlLine(lines, i + 1)
                      url == IF j <= Len(lines) THEN Trim(lines[j]) ELSE ""
                  IN  (IF IsHttpUrl(url) THEN <<MakeChannel(line, url)>> ELSE <<>>)
                      \o ParseFrom(lines, j + 1)
             ELSE ParseFrom(lines, i + 1)

\* a < b in code-unit order.
RECURSIVE StrLess(_, _)
StrLess(a, b) ==
    IF Len(b) = 0 THEN FALSE
    ELSE IF Len(a) = 0 THEN TRUE
    ELSE IF CharAt(a, 1) = CharAt(b, 1)
         THEN StrLess(SubSeq(a, 2, Len(a)), SubSeq(b, 2, Len(b)))
         ELSE CharCode(CharAt(a, 1)) < CharCode(CharAt(b, 1))

\* The result of localeCompare is implementation-defined. The engines the app
\* runs on compare either code units or, with Intl, by the Unicode collation
\* algorithm.
Collations == {"codeunit", "icu"}

\* s.toLowerCase() on ASCII.
RECURSIVE ToLowerCase(_)
ToLowerCase(s) ==
    IF s = "" THEN ""
    ELSE LET c == CharAt(s, 1)
             u == IndexOf("ABCDEFGHIJKLMNOPQRSTUVWXYZ", c)
         IN  (IF u = 0 THEN c ELSE CharAt("abcdefghijklmnopqrstuvwxyz", u))
                 \o ToLowerCase(SubSeq(s, 2, Len(s)))

\* a before b in the root collation, for strings of letters, digits and
\* spaces: by the letters whatever their case (space, then digits, then
\* letters), and between strings that differ in case only, lower case first
\* at the first difference.
IcuLess(a, b) ==
    LET la == ToLowerCase(a)
        lb == ToLowerCase(b)
    IN  IF la # lb THEN StrLess(la, lb)
        ELSE LET diff == {i \in 1..Len(a) : CharAt(a, i) # CharAt(b, i)}
             IN  diff # {} /\ ToLowerCase(CharAt(a, Min(diff))) = CharAt(a, Min(diff))

\* a.localeCompare(b) < 0
localeCompareLess(collation, a, b) ==
    IF collation = "codeunit" THEN StrLess(a, b) ELSE IcuLess(a, b)

\* The comparator of the final sort: "Uncategorized" after everything else.
CategoryBeforePlain(collation, a, b) == localeCompareLess(collation, a, b)

CategoryBefore(collation, a, b) ==
    IF a = Uncategorized THEN FALSE
    ELSE IF b = Uncategorized THEN TRUE
    ELSE localeCompareLess(collation, a, b)

RECURSIVE SortCategories(_, _)
SortCategories(collation, set) ==
    IF set = {} THEN <<>>
    ELSE LET first == CHOOSE a \in set : \A b \in set \ {a} : CategoryBefore(collation, a, b)
         IN  <<first>> \o SortCategories(collation, set \ {first})

parseM3U(content, collation) ==
    LET parsedChannels == ParseFrom(Split(content), 1)
    IN  [channels   |-> parsedChannels,
         categories |-> SortCategories(collation, {parsedChannels[k].group :
                                                      k \in 1..Len(parsedChannels)})]

(***************************************************************************)
(* services/xtreamApi.ts: the pure parts                                   *)
(***************************************************************************)
\* A JavaScript value that may be null is a sequence of length 0 or 1.
Null == <<>>

Some(v) == <<v>>

\* s.replace(/\/+$/, '')
StripTrailingSlashes(s) ==
    LET keep == {i \in 1..Len(s) : CharAt(s, i) # "/"}
    IN  IF keep = {} THEN "" ELSE SubSeq(s, 1, Max(keep))

normalizeServer(server) ==
    LET t == Trim(server)
        s == IF ~StartsWith(t, "http://") /\ ~StartsWith(t, "https://")
             THEN "http://" \o t
             ELSE t
    IN  StripTrailingSlashes(s)

HexDigits == "0123456789ABCDEF"

RECURSIVE encodeURIComponent(_)
encodeURIComponent(s) ==
    IF s = "" THEN ""
    ELSE LET c    == CharAt(s, 1)
             code == CharCode(c)
             \* The characters encodeURIComponent leaves as they are.
             unreserved == "ABCDEFGHIJKLMNOPQRSTUVWXYZabcdefghijklmnopqrstuvwxyz0123456789-_.!~*'()"
             enc  == IF Includes(unreserved, c) THEN c
                     ELSE "%" \o CharAt(HexDigits, (code \div 16) + 1)
                              \o CharAt(HexDigits, (code % 16) + 1)
         IN  enc \o encodeURIComponent(SubSeq(s, 2, Len(s)))

\* `${n}` for a non-negative integer.
RECURSIVE ToDecimal(_)
ToDecimal(n) ==
    IF n < 10 THEN CharAt(Base36Digits, n + 1)
    ELSE ToDecimal(n \div 10) \o CharAt(Base36Digits, (n % 10) + 1)

buildStreamUrl(creds, streamId) ==
    normalizeServer(creds.server) \o "/live/" \o encodeURIComponent(creds.username)
        \o "/" \o encodeURIComponent(creds.password) \o "/" \o ToDecimal(streamId) \o ".m3u8"

\* A faulty variant of CategoryLookup that finds no category; C15 must tell it
\* from the code.
CategoryLookupNone(rawCategories, id) == Null

\* categoryMap.get(id) after the loop of categoryMap.set: the name of the last
\* category with that id, or Null.
RECURSIVE CategoryLookup(_, _)
CategoryLookup(rawCategories, id) ==
    IF rawCategories = <<>> THEN Null
    ELSE LET n    == Len(rawCategories)
             last == rawCategories[n]
         IN  IF last.category_id = id THEN Some(last.category_name)
             ELSE CategoryLookup(SubSeq(rawCategories, 1, n - 1), id)

\* Step 3 of loadXtreamChannels: the result built from the two fetched lists.
XtreamResult(creds, rawCategories, rawStreams) ==
    LET groupOf(stream) ==
            LET found == CategoryLookup(rawCategories, stream.category_id)
            IN  IF found # Null /\ found[1] # "" THEN found[1] ELSE Uncategorized
    IN  [channels |->
            [k \in 1..Len(rawStreams) |->
                [id       |-> "xtream_" \o ToDecimal(rawStreams[k].stream_id),
                 name     |-> rawStreams[k].name,
                 url      |-> buildStreamUrl(creds, rawStreams[k].stream_id),
                 logo     |-> rawStreams[k].stream_icon,
                 group    |-> groupOf(rawStreams[k]),
                 language |-> ""]],
         categories |->
            [k \in 1..Len(rawCategories) |-> rawCategories[k].category_name]]

(***************************************************************************)
(* new URL(url), as far as parseXtreamUrl reads it: protocol, host,        *)
(* pathname and searchParams.get.                                          *)
(***************************************************************************)
\* The index of the first of "/", "?" or "#" at or after from; Len(s) + 1 if none.
HostEnd(s, from) ==
    LET ends == {i \in from..Len(s) : CharAt(s, i) \in {"/", "?", "#"}}
    IN  IF ends = {} THEN Len(s) + 1 ELSE Min(ends)

\* Null when the text is not an absolute URL (new URL throws).
ParseUrl(url) ==
    LET t      == Trim(url)
        colon  == IndexOf(t, "://")
        hostAt == colon + 3
        hostTo == HostEnd(t, hostAt)
        query  == IndexOfFrom(t, "?", hostTo)
        pathTo == IF query = 0 THEN Len(t) + 1 ELSE query
        path   == SubSeq(t, hostTo, pathTo - 1)
    IN  IF colon <= 1 \/ hostTo = hostAt THEN Null
        ELSE Some([protocol |-> SubSeq(t, 1, colon),
                   host     |-> SubSeq(t, hostAt, hostTo - 1),
                   pathname |-> IF path = "" THEN "/" ELSE path,
                   search   |-> IF query = 0 THEN "" ELSE SubSeq(t, query + 1, Len(t))])

\* The value of a two-digit hexadecimal number, for %XX.
HexValue(c) == IndexOf(HexDigits, c) - 1

\* The decoding URLSearchParams applies to a name or a value.
RECURSIVE DecodeParam(_)
DecodeParam(s) ==
    IF s = "" THEN ""
    ELSE IF CharAt(s, 1) = "+" THEN " " \o DecodeParam(SubSeq(s, 2, Len(s)))
    ELSE IF /\ CharAt(s, 1) = "%"
            /\ Len(s) >= 3
            /\ Includes(HexDigits, CharAt(s, 2))
            /\ Includes(HexDigits, CharAt(s, 3))
         THEN LET code == (16 * HexValue(CharAt(s, 2))) + HexValue(CharAt(s, 3))
              IN  (IF code >= 97 THEN CharAt(AsciiHigh, code - 96)
                   ELSE CharAt(AsciiLow, code - 31))
                      \o DecodeParam(SubSeq(s, 4, Len(s)))
    ELSE CharAt(s, 1) \o DecodeParam(SubSeq(s, 2, Len(s)))

\* searchParams.get(name): the value of the first pair with that name, or Null.
RECURSIVE SearchParamsGet(_, _)
SearchParamsGet(search, name) ==
    IF search = "" THEN Null
    ELSE LET amp   == IndexOf(search, "&")
             pair  == IF amp = 0 THEN search ELSE SubSeq(search, 1, amp - 1)
             rest  == IF amp = 0 THEN "" ELSE SubSeq(search, amp + 1, Len(search))
             eq    == IndexOf(pair, "=")
             key   == IF eq = 0 THEN pair ELSE SubSeq(pair, 1, eq - 1)
             value == IF eq = 0 THEN "" ELSE SubSeq(pair, eq + 1, Len(pair))
         IN  IF pair # "" /\ DecodeParam(key) = name THEN Some(DecodeParam(value))
             ELSE SearchParamsGet(rest, name)

\* A faulty variant of parseXtreamUrl that recognises no provider URL; C7 must
\* tell it from the code.
parseXtreamUrlNever(url) == Null

parseXtreamUrl(url) ==
    LET urlObj   == ParseUrl(url)
        username == SearchParamsGet(urlObj[1].search, "username")
        password == SearchParamsGet(urlObj[1].search, "password")
    IN  IF urlObj = Null THEN Null
        ELSE IF /\ \/ Includes(urlObj[1].pathname, "get.php")
                   \/ Includes(urlObj[1].pathname, "player_api.php")
                /\ username # Null /\ username[1] # ""
                /\ password # Null /\ password[1] # ""
             THEN Some([server   |-> urlObj[1].protocol \o "//" \o urlObj[1].host,
                        username |-> username[1],
                        password |-> password[1]])
             ELSE Null

(***************************************************************************)
(* Inputs: what the user types, what the servers answer, what an earlier   *)
(* run of the app left in the store.                                       *)
(***************************************************************************)
\* How many ingestion attempts one run starts: of any kind with every fault,
\* on one path (playlist or provider) with every fault, of any kind with none.
MaxAttempts == 1

MaxLoads == 2

MaxRefreshLoads == 3

UrlA == "http://tv.example/list.m3u"

UrlX == "http://prov.example:8080/get.php?username=alice&password=s3cret&type=m3u_plus"

\* The third is a provider path with no password parameter: not a provider URL.
Urls == {UrlA, UrlX, "http://prov.example:8080/player_api.php?username=alice"}

CredsTyped == [server |-> "prov.example:8080/", username |-> "alice", password |-> "s3cret"]

CredsInputs == {CredsTyped}

\* Response bodies of a playlist URL: empty, blank, no entry, one valid entry
\* beside a non-HTTP one, two valid entries.
BodyOne == "#EXTM3U\n#EXTINF:-1 tvg-name=\"One\" tvg-logo=\"http://l/1.png\" group-title=\"News\" tvg-language=\"en\",Channel One\nhttp://tv.example/1.ts\n#EXTINF:-1 group-title=\"Kids\",Two\nrtmp://tv.example/2\n"

BodyTwo == "#EXTM3U\n#EXTINF:-1 group-title=\"Sport\",Channel Five\n# note\n\nhttps://tv.example/5.m3u8\r\n#EXTINF:0,Six\nhttp://tv.example/6\n"

Bodies == {"", " \r\n\t\n", "<html>\n#EXTINF:-1,Lost\nftp://x/1\n</html>", BodyOne, BodyTwo}

\* What parseM3U returns for each body: their categories are News, Sport and
\* Uncategorized, which every collation orders alike.
Parsed == [b \in Bodies |-> parseM3U(b, "icu")]

HttpStatuses == {404}

\* Provider answers: category lists and stream lists.
CategoryLists ==
    {<<>>, <<[category_id |-> "2", category_name |-> "Sport"],
             [category_id |-> "1", category_name |-> "News"]>>}

StreamLists ==
    {<<>>,
     <<[stream_id |-> 7, name |-> "Seven", stream_icon |-> "", category_id |-> "1"],
       [stream_id |-> 8, name |-> "Eight", stream_icon |-> "http://l/8.png", category_id |-> "9"]>>}

\* data.user_info of the authentication answer: absent, or its status.
UserInfos == {Null, Some("Active"), Some("Banned")}

(***************************************************************************)
(* services/storage.ts                                                     *)
(***************************************************************************)
KEYS == {"PLAYLIST_URL", "PLAYLIST_CHANNELS", "PLAYLIST_CATEGORIES", "PLAYLIST_META",
         "XTREAM_CREDENTIALS", "CONNECTION_TYPE"}

EmptyStore == [k \in KEYS |-> Null]

PlaylistMeta(chs, url) ==
    [url |-> url, name |-> "IPTV Playlist", channelCount |-> Len(chs)]

\* A faulty variant of getConnectionType that ignores the stored mode; C6 must
\* tell it from the code.
getConnectionTypeAlwaysM3u(st) == "m3u"

\* getConnectionType: data || 'm3u'
getConnectionType(st) ==
    IF st["CONNECTION_TYPE"] # Null /\ st["CONNECTION_TYPE"][1] # ""
    THEN st["CONNECTION_TYPE"][1]
    ELSE "m3u"

\* The setItem calls savePlaylistData issues, as key/value pairs.
savePlaylistData(chs, cats, url) ==
    {<<"PLAYLIST_CHANNELS", chs>>, <<"PLAYLIST_CATEGORIES", cats>>,
     <<"PLAYLIST_META", PlaylistMeta(chs, url)>>}

\* Stores an earlier run can have left behind (its writes may have failed or
\* not finished: any subset of the keys of a consistent store can be missing).
StoreM3u ==
    [EmptyStore EXCEPT !["PLAYLIST_URL"] = Some(UrlA),
                       !["PLAYLIST_CHANNELS"] = Some(Parsed[BodyOne].channels),
                       !["PLAYLIST_CATEGORIES"] = Some(Parsed[BodyOne].categories),
                       !["PLAYLIST_META"] = Some(PlaylistMeta(Parsed[BodyOne].channels, UrlA)),
                       !["CONNECTION_TYPE"] = Some("m3u")]

StoreXtream ==
    [StoreM3u EXCEPT !["XTREAM_CREDENTIALS"] = Some(CredsTyped),
                     !["CONNECTION_TYPE"] = Some("xtream")]

\* What loadXtreamChannels returns, for every answer of the provider and every
\* credentials value a run can hold: typed, from a URL, from the store.
XtreamResultOf ==
    [creds \in CredsInputs \cup {parseXtreamUrl(u)[1] : u \in {v \in Urls : parseXtreamUrl(v) # Null}},
     rawCategories \in CategoryLists, rawStreams \in StreamLists |->
        XtreamResult(creds, rawCategories, rawStreams)]

InitialStores ==
    {EmptyStore,
     StoreM3u,
     [StoreXtream EXCEPT !["PLAYLIST_CATEGORIES"] = Null],
     [StoreXtream EXCEPT !["PLAYLIST_CHANNELS"] = Null],
     [StoreM3u EXCEPT !["PLAYLIST_CHANNELS"] = Null, !["CONNECTION_TYPE"] = Null,
                      !["XTREAM_CREDENTIALS"] = Some(CredsTyped)],
     [EmptyStore EXCEPT !["XTREAM_CREDENTIALS"] = Some(CredsTyped)]}


(***************************************************************************)
(* hooks/usePlaylist.ts: state                                             *)
(***************************************************************************)
VARIABLES
    channels,       \* useState: Channel[]
    categories,     \* useState: string[]
    loading,        \* useState: boolean
    error,          \* useState: string | null
    currentUrl,     \* useRef: string | null
    currentXtream,  \* useRef: XtreamCredentials | null
    abortRef,       \* useRef: the attempt whose AbortController it holds, 0 for null
    store,          \* AsyncStorage: key -> value | null
    pending,        \* background setItem calls not yet settled: key -> set of values
    startup,        \* loadFromCache: where it is suspended, and its locals
    att,            \* the ingestion attempts started so far, in order
    lastOk,         \* history: the source of the most recent attempt that committed
    call,           \* a direct call of an exported function: its name, argument, result
    screen          \* PlayerScreen: its useState and useRef values, its player and listener

vars == <<channels, categories, loading, error, currentUrl, currentXtream, abortRef,
          store, pending, startup, att, lastOk, call, screen>>

\* Everything but call.
hookVars == <<channels, categories, loading, error, currentUrl, currentXtream, abortRef,
              store, pending, startup, att, lastOk, screen>>

ErrCancelled == "Load cancelled"

ErrCache == "Failed to load cached playlist"

ErrM3uTimeout == "Connection timed out. The server took too long to respond. Check the URL and try again."

ErrM3uNetwork == "Network error. Check your internet connection and make sure the URL is correct."

ErrEmptyBody == "Server returned an empty response"

ErrNoChannels == "No channels found. The URL may not be a valid M3U playlist."

ErrXtreamTimeout == "Connection timed out. The server took too long to respond."

ErrXtreamNetwork == "Network error. Check your internet connection and server URL."

ErrNoLive == "No live channels found on this server."

ErrInvalidServer == "Invalid response from server. This may not be an Xtream Codes server."

\* What fetch and the body readers reject with.
AbortError == [name |-> "AbortError", message |-> "Aborted"]

NetworkFailure == [name |-> "TypeError", message |-> "Network request failed"]

JsonSyntaxError == [name |-> "SyntaxError", message |-> "JSON Parse error: Unexpected token"]

Error(message) == [name |-> "Error", message |-> message]

NoCreds == [server |-> "", username |-> "", password |-> ""]

\* One request of fetchWithTimeout. st: none, fetch (headers awaited), json (body
\* awaited), ok. linked: the abort listener on the caller's signal can still fire.
NoReq == [st |-> "none", linked |-> FALSE]

\* An attempt that has settled (its finally block has run). url is the argument
\* of fetchAndParse ("" when fetchXtream was called directly); aborted is
\* controller.signal.aborted.
Settled ==
    [kind |-> "done", url |-> "", creds |-> NoCreds, pc |-> "done", aborted |-> FALSE,
     auth |-> NoReq, cat |-> NoReq, str |-> NoReq]

InFlight(a) == att[a].pc # "done"

\* No exported function has been called directly.
NoCall == [fn |-> "", arg |-> <<>>, ret |-> <<>>]

Attempts == {a \in 1..Len(att) : InFlight(a)}

\* PlayerScreen before the user opens a channel: nothing of it is mounted.
Unmounted ==
    [mounted |-> FALSE, currentIndex |-> 0, isBuffering |-> FALSE, hasError |-> FALSE,
     errorMessage |-> "", isSwitching |-> FALSE, expectedUrl |-> "", streamTimer |-> FALSE,
     replacing |-> {}, recreates |-> FALSE, listenerSwitching |-> FALSE,
     events |-> 0]

Init ==
    /\ channels = <<>>
    /\ categories = <<>>
    /\ loading = TRUE
    /\ error = Null
    /\ currentUrl = Null
    /\ currentXtream = Null
    /\ abortRef = 0
    /\ store \in InitialStores
    /\ pending = [k \in KEYS |-> {}]
    /\ startup = [pc |-> "reading", cached |-> EmptyStore]
    /\ att = <<>>
    /\ lastOk = Null
    /\ call = NoCall
    /\ screen = Unmounted

(***************************************************************************)
(* hooks/usePlaylist.ts: starting an attempt                               *)
(***************************************************************************)
\* abortRef.current?.abort()
AbortCurrent == IF abortRef = 0 THEN att ELSE [att EXCEPT ![abortRef].aborted = TRUE]

\* fetchWithTimeout up to its await: the listener is added to the caller's
\* signal, and an abort listener added to an aborted signal never fires.
NewRequest(signalAborted) == [st |-> "fetch", linked |-> ~signalAborted]

\* fetchXtream up to its first await (the fetch of authenticateXtream).
fetchXtream(creds, url) ==
    /\ att' = Append(AbortCurrent,
                     [Settled EXCEPT !.kind = "xtream", !.url = url, !.creds = creds,
                                     !.pc = "auth", !.auth = NewRequest(FALSE)])
    /\ abortRef' = Len(att) + 1
    /\ loading' = TRUE
    /\ error' = Null

\* parseXtreamUrl over the URLs of the model.
XtreamCredsOf == [u \in Urls |-> parseXtreamUrl(u)]

\* fetchAndParse up to its first await: the provider check, then either
\* fetchXtream or the playlist fetch.
fetchAndParse(url) ==
    LET xtreamCreds == XtreamCredsOf[url]
    IN  IF xtreamCreds # Null
        THEN fetchXtream(xtreamCreds[1], url)
        ELSE /\ att' = Append(AbortCurrent,
                              [Settled EXCEPT !.kind = "m3u", !.url = url, !.pc = "fetch"])
             /\ abortRef' = Len(att) + 1
             /\ loading' = TRUE
             /\ error' = Null

(***************************************************************************)
(* hooks/usePlaylist.ts: loadFromCache                                     *)
(***************************************************************************)
StartupDone == [pc |-> "done", cached |-> EmptyStore]

\* A faulty variant of HasCachedChannels that never uses the cache; C5 must tell
\* it from the code.
HasCachedChannelsNever(cachedChannels) == FALSE

\* cachedChannels && cachedChannels.length > 0
HasCachedChannels(cachedChannels) == cachedChannels # Null /\ Len(cachedChannels[1]) > 0

\* The Promise.all of the four reads resolves.
StartupRead ==
    /\ startup.pc = "reading"
    /\ startup' = [pc |-> "creds", cached |-> store]
    /\ currentUrl' = store["PLAYLIST_URL"]
    /\ UNCHANGED <<channels, categories, loading, error, currentXtream, abortRef, store,
                   pending, att, lastOk, call, screen>>

\* getXtreamCredentials resolves; the rest of the try block up to its end or to
\* the first await of the attempt it starts.
StartupDecide ==
    /\ startup.pc = "creds"
    /\ LET cachedChannels   == startup.cached["PLAYLIST_CHANNELS"]
           cachedCategories == startup.cached["PLAYLIST_CATEGORIES"]
           url              == startup.cached["PLAYLIST_URL"]
           connType         == getConnectionType(startup.cached)
           xtreamCreds      == store["XTREAM_CREDENTIALS"]
       IN  /\ currentXtream' = IF xtreamCreds # Null THEN xtreamCreds ELSE currentXtream
           /\ IF HasCachedChannels(cachedChannels)
              THEN /\ channels' = cachedChannels[1]
                   /\ categories' = IF cachedCategories # Null THEN cachedCategories[1] ELSE <<>>
                   /\ loading' = FALSE
                   /\ UNCHANGED <<error, abortRef, att>>
              ELSE IF connType = "xtream" /\ xtreamCreds # Null
              THEN /\ fetchXtream(xtreamCreds[1], "")
                   /\ UNCHANGED <<channels, categories>>
              ELSE IF url # Null /\ url[1] # ""
              THEN /\ fetchAndParse(url[1])
                   /\ UNCHANGED <<channels, categories>>
              ELSE /\ loading' = FALSE
                   /\ UNCHANGED <<channels, categories, error, abortRef, att>>
    /\ startup' = StartupDone
    /\ UNCHANGED <<currentUrl, store, pending, lastOk, call, screen>>

\* A storage read rejects (or JSON.parse throws): the catch block.
StartupReadFailed ==
    /\ startup.pc \in {"reading", "creds"}
    /\ error' = Some(ErrCache)
    /\ loading' = FALSE
    /\ startup' = StartupDone
    /\ UNCHANGED <<channels, categories, currentUrl, currentXtream, abortRef, store,
                   pending, att, lastOk, call, screen>>

(***************************************************************************)
(* hooks/usePlaylist.ts: the operations the hook returns                   *)
(***************************************************************************)
loadPlaylist(url) ==
    /\ fetchAndParse(url)
    /\ UNCHANGED <<channels, categories, currentUrl, currentXtream, store, pending,
                   startup, lastOk, call, screen>>

loadXtream(creds) ==
    /\ fetchXtream(creds, "")
    /\ UNCHANGED <<channels, categories, currentUrl, currentXtream, store, pending,
                   startup, lastOk, call, screen>>

refresh ==
    /\ IF currentXtream # Null THEN fetchXtream(currentXtream[1], "")
       ELSE IF currentUrl # Null /\ currentUrl[1] # "" THEN fetchAndParse(currentUrl[1])
       ELSE UNCHANGED <<att, abortRef, loading, error>>
    /\ UNCHANGED <<channels, categories, currentUrl, currentXtream, store, pending,
                   startup, lastOk, call, screen>>

cancelLoad ==
    /\ att' = AbortCurrent
    /\ loading' = FALSE
    /\ error' = Some(ErrCancelled)
    /\ UNCHANGED <<channels, categories, currentUrl, currentXtream, abortRef, store,
                   pending, startup, lastOk, call, screen>>

(***************************************************************************)
(* hooks/usePlaylist.ts: how an attempt ends                               *)
(***************************************************************************)
\* The catch block of fetchAndParse: the message setError receives.
M3uErrorMessage(e) ==
    IF e.name = "AbortError" THEN ErrM3uTimeout
    ELSE IF Includes(e.message, "Network request failed") THEN ErrM3uNetwork
    ELSE IF e.message # "" THEN e.message
    ELSE "Failed to load playlist"

\* The catch block of fetchXtream: the message setError receives.
XtreamErrorMessage(e) ==
    IF e.name = "AbortError" THEN ErrXtreamTimeout
    ELSE IF Includes(e.message, "Network request failed") THEN ErrXtreamNetwork
    ELSE IF e.message # "" THEN e.message
    ELSE "Failed to connect to Xtream server"

\* fetchWithTimeout's catch block: what it throws for what fetch rejected with.
FetchWithTimeoutError(e) == IF e.name = "AbortError" THEN Error(ErrXtreamTimeout) ELSE e

\* !content || content.trim().length === 0
IsEmptyResponse(content) == content = "" \/ Len(Trim(content)) = 0

\* A faulty variant of NoChannels that accepts every result; C8 must tell it
\* from the code.
NoChannelsNever(result) == FALSE

\* result.channels.length === 0
NoChannels(result) == Len(result.channels) = 0

\* pending, with the setItem calls of writes (key/value pairs) issued.
Issue(writes) ==
    [k \in KEYS |-> pending[k] \cup {w[2] : w \in {x \in writes : x[1] = k}}]

\* A faulty variant of Fail whose catch block rethrows what it does not
\* recognise (a SyntaxError); C11 must tell it from the code.
FailRethrows(a, e) ==
    /\ error' = IF e.name = "SyntaxError" THEN error
                ELSE Some(IF att[a].kind = "m3u" THEN M3uErrorMessage(e) ELSE XtreamErrorMessage(e))
    /\ loading' = FALSE
    /\ abortRef' = 0
    /\ att' = [att EXCEPT ![a] = Settled]
    /\ UNCHANGED <<channels, categories, currentUrl, currentXtream, store, pending,
                   startup, lastOk, call, screen>>

FailClearsChannels(a, e) ==
    /\ error' = Some(IF att[a].kind = "m3u" THEN M3uErrorMessage(e) ELSE XtreamErrorMessage(e))
    /\ loading' = FALSE
    /\ abortRef' = 0
    /\ att' = [att EXCEPT ![a] = Settled]
    /\ channels' = <<>>
    /\ categories' = <<>>
    /\ UNCHANGED <<currentUrl, currentXtream, store, pending, startup, lastOk, call, screen>>

\* catch and finally of an attempt that throws e.
Fail(a, e) ==
    /\ error' = Some(IF att[a].kind = "m3u" THEN M3uErrorMessage(e) ELSE XtreamErrorMessage(e))
    /\ loading' = FALSE
    /\ abortRef' = 0
    /\ att' = [att EXCEPT ![a] = Settled]
    /\ UNCHANGED <<channels, categories, currentUrl, currentXtream, store, pending,
                   startup, lastOk, call, screen>>

\* fetchAndParse from "Update state" to the end of finally.
CommitM3u(a, result) ==
    LET url == att[a].url
    IN  /\ channels' = result.channels
        /\ categories' = result.categories
        /\ currentUrl' = Some(url)
        /\ pending' = Issue(savePlaylistData(result.channels, result.categories, url)
                            \cup {<<"PLAYLIST_URL", url>>, <<"CONNECTION_TYPE", "m3u">>})
        /\ loading' = FALSE
        /\ abortRef' = 0
        /\ att' = [att EXCEPT ![a] = Settled]
        /\ lastOk' = Some([kind |-> "m3u", url |-> url, creds |-> NoCreds])
        /\ UNCHANGED <<error, currentXtream, store, startup, call, screen>>

\* fetchXtream from "Update state" to the end of finally.
CommitXtream(a, result) ==
    LET creds == att[a].creds
    IN  /\ channels' = result.channels
        /\ categories' = result.categories
        /\ currentXtream' = Some(creds)
        /\ pending' = Issue(savePlaylistData(result.channels, result.categories,
                                             "xtream://" \o creds.server)
                            \cup {<<"XTREAM_CREDENTIALS", creds>>})
        /\ loading' = FALSE
        /\ abortRef' = 0
        /\ att' = [att EXCEPT ![a] = Settled]
        /\ lastOk' = Some([kind |-> "xtream", url |-> "", creds |-> creds])
        /\ UNCHANGED <<error, currentUrl, store, startup, call, screen>>

\* A step of an attempt that only moves it to its next await.
Advance(a, next) ==
    /\ att' = [att EXCEPT ![a] = next]
    /\ UNCHANGED <<channels, categories, loading, error, currentUrl, currentXtream,
                   abortRef, store, pending, startup, lastOk, call, screen>>

(***************************************************************************)
(* hooks/usePlaylist.ts: fetchAndParse after its first await               *)
(***************************************************************************)
M3uFetching(a) == a \in Attempts /\ att[a].kind = "m3u" /\ att[a].pc = "fetch" /\ ~att[a].aborted

\* fetch resolves with an ok response; response.text() is awaited.
M3uHeaders(a) ==
    /\ M3uFetching(a)
    /\ Advance(a, [att[a] EXCEPT !.pc = "text"])

\* fetch resolves with a response that is not ok.
M3uHttpError(a, status) ==
    /\ M3uFetching(a)
    /\ Fail(a, Error("Server returned " \o ToDecimal(status) \o " (error)"))

\* fetch rejects: the network failed.
M3uNetworkFailed(a) ==
    /\ M3uFetching(a)
    /\ Fail(a, NetworkFailure)

\* The 15 s timer fires while fetch is pending: controller.abort(), and fetch
\* rejects with an AbortError.
M3uTimeout(a) ==
    /\ M3uFetching(a)
    /\ Fail(a, AbortError)

\* The controller was aborted from outside (a newer attempt or cancelLoad): the
\* pending fetch rejects with an AbortError; a pending response.text() does so
\* where the platform's body reader observes the signal.
M3uAborted(a) ==
    /\ a \in Attempts /\ att[a].kind = "m3u" /\ att[a].pc \in {"fetch", "text"} /\ att[a].aborted
    /\ Fail(a, AbortError)

\* response.text() resolves (an abort does not stop a body that has arrived).
M3uBody(a, content) ==
    /\ a \in Attempts /\ att[a].kind = "m3u" /\ att[a].pc = "text"
    /\ IF IsEmptyResponse(content) THEN Fail(a, Error(ErrEmptyBody))
       ELSE IF NoChannels(Parsed[content]) THEN Fail(a, Error(ErrNoChannels))
       ELSE CommitM3u(a, Parsed[content])

(***************************************************************************)
(* services/xtreamApi.ts and fetchXtream after its first await             *)
(***************************************************************************)
Requests == {"auth", "cat", "str"}

\* The request's own controller was aborted through the listener.
ReqAborted(a, r) == att[a][r].linked /\ att[a].aborted

XtFetching(a, r) == a \in Attempts /\ att[a].kind = "xtream" /\ att[a][r].st = "fetch" /\ ~ReqAborted(a, r)

\* `Failed to fetch categories: ${status}` and its siblings.
HttpErrorOf(r, status) ==
    IF r = "auth" THEN "Server returned " \o ToDecimal(status) \o ". Check your credentials."
    ELSE IF r = "cat" THEN "Failed to fetch categories: " \o ToDecimal(status)
    ELSE "Failed to fetch streams: " \o ToDecimal(status)

\* fetchWithTimeout returns a response that is ok; response.json() is awaited.
XtHeaders(a, r) ==
    /\ XtFetching(a, r)
    /\ Advance(a, [att[a] EXCEPT ![r].st = "json"])

\* fetchWithTimeout returns a response that is not ok.
XtHttpError(a, r, status) ==
    /\ XtFetching(a, r)
    /\ Fail(a, Error(HttpErrorOf(r, status)))

\* fetch rejects inside fetchWithTimeout: the network failed.
XtNetworkFailed(a, r) ==
    /\ XtFetching(a, r)
    /\ Fail(a, FetchWithTimeoutError(NetworkFailure))

\* The 20 s timer of one request fires while its fetch is pending.
XtTimeout(a, r) ==
    /\ XtFetching(a, r)
    /\ Fail(a, FetchWithTimeoutError(AbortError))

\* The hook's controller was aborted and the listener aborted the request: a
\* pending fetch rejects inside fetchWithTimeout, a pending response.json()
\* rejects where the platform's body reader observes the signal.
XtAborted(a, r) ==
    /\ a \in Attempts /\ att[a].kind = "xtream" /\ att[a][r].st \in {"fetch", "json"} /\ ReqAborted(a, r)
    /\ IF att[a][r].st = "fetch"
       THEN Fail(a, FetchWithTimeoutError(AbortError))
       ELSE Fail(a, AbortError)

\* response.json() rejects: the body is not JSON.
XtJsonFailed(a, r) ==
    /\ a \in Attempts /\ att[a].kind = "xtream" /\ att[a][r].st = "json"
    /\ Fail(a, JsonSyntaxError)

\* `Account status: ${status}. Contact your provider.`
AccountStatusError(status) == "Account status: " \o status \o ". Contact your provider."

\* authenticateXtream after response.json() (info is data.user_info), then
\* loadXtreamChannels up to Promise.all: both requests are created before
\* either is awaited.
XtAuthBody(a, info) ==
    /\ a \in Attempts /\ att[a].kind = "xtream" /\ att[a].auth.st = "json"
    /\ IF info = Null THEN Fail(a, Error(ErrInvalidServer))
       ELSE IF info[1] # "Active" THEN Fail(a, Error(AccountStatusError(info[1])))
       ELSE Advance(a, [att[a] EXCEPT !.pc = "fetching",
                                      !.auth = NoReq,
                                      !.cat = NewRequest(att[a].aborted),
                                      !.str = NewRequest(att[a].aborted)])

\* A faulty variant of XtListBody that returns as soon as one of the two lists
\* has arrived; C13 must tell it from the code.
XtListBodyEager(a, r, rawCategories, rawStreams) ==
    /\ a \in Attempts /\ att[a].kind = "xtream" /\ r \in {"cat", "str"} /\ att[a][r].st = "json"
    /\ LET result == XtreamResultOf[att[a].creds, rawCategories, rawStreams]
       IN  IF NoChannels(result) THEN Fail(a, Error(ErrNoLive))
           ELSE CommitXtream(a, result)

\* response.json() of the category or stream request resolves. When it is the
\* second of the two, Promise.all resolves with both lists and fetchXtream runs
\* to its end; nothing reads a list before that, so the lists are drawn here.
XtListBody(a, r, rawCategories, rawStreams) ==
    /\ a \in Attempts /\ att[a].kind = "xtream" /\ r \in {"cat", "str"} /\ att[a][r].st = "json"
    /\ IF att[a][IF r = "cat" THEN "str" ELSE "cat"].st # "ok"
       THEN Advance(a, [att[a] EXCEPT ![r].st = "ok"])
       ELSE LET result == XtreamResultOf[att[a].creds, rawCategories, rawStreams]
            IN  IF NoChannels(result) THEN Fail(a, Error(ErrNoLive))
                ELSE CommitXtream(a, result)

(***************************************************************************)
(* Background persistence: the setItem calls issued by a commit            *)
(***************************************************************************)
\* saveXtreamCredentials awaits the credentials write, then writes the mode.
Chained(k, st) ==
    IF k = "XTREAM_CREDENTIALS"
    THEN [st EXCEPT !["CONNECTION_TYPE"] = @ \cup {"xtream"}]
    ELSE st

WriteDone(k) ==
    /\ \E v \in pending[k] :
        /\ store' = [store EXCEPT ![k] = Some(v)]
        /\ pending' = Chained(k, [pending EXCEPT ![k] = @ \ {v}])
    /\ UNCHANGED <<channels, categories, loading, error, currentUrl, currentXtream,
                   abortRef, startup, att, lastOk, call, screen>>

\* A faulty variant of WriteFailed that reports the failure to the user; C10
\* must tell it from the code.
WriteFailedReported(k) ==
    /\ \E v \in pending[k] : pending' = [pending EXCEPT ![k] = @ \ {v}]
    /\ error' = Some("Failed to save playlist")
    /\ UNCHANGED <<channels, categories, loading, currentUrl, currentXtream,
                   abortRef, store, startup, att, lastOk, call, screen>>

\* setItem rejects: .catch(console.warn)
WriteFailed(k) ==
    /\ \E v \in pending[k] : pending' = [pending EXCEPT ![k] = @ \ {v}]
    /\ UNCHANGED <<channels, categories, loading, error, currentUrl, currentXtream,
                   abortRef, store, startup, att, lastOk, call, screen>>

(***************************************************************************)
(* The next-state relations. n bounds the attempts one run starts.         *)
(***************************************************************************)
\* loadFromCache.
Startup ==
    \/ StartupRead
    \/ StartupDecide
    \/ StartupReadFailed

\* What the network answers to a playlist attempt, and how it fails it.
M3uAnswers(n) ==
    \E a \in 1..n :
        \/ M3uHeaders(a)
        \/ \E content \in Bodies : M3uBody(a, content)

M3uFailures(n) ==
    \E a \in 1..n :
        \/ \E status \in HttpStatuses : M3uHttpError(a, status)
        \/ M3uNetworkFailed(a)
        \/ M3uTimeout(a)

\* What the network answers to a provider attempt, and how it fails it.
XtAnswers(n) ==
    \E a \in 1..n :
        \/ \E r \in Requests : XtHeaders(a, r)
        \/ \E info \in UserInfos : XtAuthBody(a, info)
        \/ \E r \in Requests, rawCategories \in CategoryLists, rawStreams \in StreamLists :
            XtListBody(a, r, rawCategories, rawStreams)

XtFailures(n) ==
    \E a \in 1..n, r \in Requests :
        \/ \E status \in HttpStatuses : XtHttpError(a, r, status)
        \/ XtNetworkFailed(a, r)
        \/ XtTimeout(a, r)
        \/ XtJsonFailed(a, r)

\* The store settles the writes in flight.
Persistence ==
    \E k \in KEYS :
        \/ WriteDone(k)
        \/ WriteFailed(k)

\* The whole program.
Next ==
    \/ Startup
    \/ \E url \in Urls : loadPlaylist(url) /\ Len(att') <= MaxAttempts
    \/ \E creds \in CredsInputs : loadXtream(creds) /\ Len(att') <= MaxAttempts
    \/ refresh /\ Len(att') <= MaxAttempts
    \/ cancelLoad
    \/ M3uAnswers(MaxAttempts)
    \/ M3uFailures(MaxAttempts)
    \/ \E a \in 1..MaxAttempts : M3uAborted(a)
    \/ XtAnswers(MaxAttempts)
    \/ XtFailures(MaxAttempts)
    \/ \E a \in 1..MaxAttempts, r \in Requests : XtAborted(a, r)
    \/ Persistence

Spec == Init /\ [][Next]_vars

\* The app is started and left alone.
NextStartup ==
    \/ Startup
    \/ M3uAnswers(1)
    \/ M3uFailures(1)
    \/ XtAnswers(1)
    \/ XtFailures(1)
    \/ Persistence

SpecStartup == Init /\ [][NextStartup]_vars

\* One session of use of an installed app, the store's callbacks left out.
InitSession == Init /\ store \in {EmptyStore, StoreM3u}

NextSession ==
    \/ Startup
    \/ \E url \in Urls : loadPlaylist(url) /\ Len(att') <= MaxAttempts
    \/ \E creds \in CredsInputs : loadXtream(creds) /\ Len(att') <= MaxAttempts
    \/ refresh /\ Len(att') <= MaxAttempts
    \/ cancelLoad
    \/ M3uAnswers(MaxAttempts)
    \/ M3uFailures(MaxAttempts)
    \/ \E a \in 1..MaxAttempts : M3uAborted(a)
    \/ XtAnswers(MaxAttempts)
    \/ XtFailures(MaxAttempts)
    \/ \E a \in 1..MaxAttempts, r \in Requests : XtAborted(a, r)

SpecSession == InitSession /\ [][NextSession]_vars

\* Playlist URLs only: loads of URLs that are not provider URLs, and cancels.
PlaylistUrls == {u \in Urls : XtreamCredsOf[u] = Null}

NextPlaylist ==
    \/ Startup
    \/ \E url \in PlaylistUrls : loadPlaylist(url) /\ Len(att') <= MaxLoads
    \/ refresh /\ Len(att') <= MaxLoads
    \/ cancelLoad
    \/ M3uAnswers(MaxLoads)
    \/ M3uFailures(MaxLoads)
    \/ \E a \in 1..MaxLoads : M3uAborted(a)

SpecPlaylist == InitSession /\ [][NextPlaylist]_vars

\* A fresh install: nothing is stored.
InitFresh == Init /\ store = EmptyStore

\* Loads made one after the other, each answered by the network, and refreshes.
NextRefresh ==
    \/ Startup
    \/ \E url \in Urls : Attempts = {} /\ loadPlaylist(url) /\ Len(att') <= MaxRefreshLoads
    \/ \E creds \in CredsInputs :
        Attempts = {} /\ loadXtream(creds) /\ Len(att') <= MaxRefreshLoads
    \/ Attempts = {} /\ refresh /\ Len(att') <= MaxRefreshLoads
    \/ M3uAnswers(MaxRefreshLoads)
    \/ XtAnswers(MaxRefreshLoads)

SpecRefresh == InitFresh /\ [][NextRefresh]_vars

\* Loads made one after the other once the app has started, each answered by
\* the network and started when the store has settled the writes of the one
\* before.
Quiet == startup.pc = "done" /\ Attempts = {} /\ \A k \in KEYS : pending[k] = {}

NextPersist ==
    \/ Startup
    \/ \E url \in PlaylistUrls : Quiet /\ loadPlaylist(url) /\ Len(att') <= MaxAttempts
    \/ \E creds \in CredsInputs : Quiet /\ loadXtream(creds) /\ Len(att') <= MaxAttempts
    \/ M3uAnswers(MaxAttempts)
    \/ XtAnswers(MaxAttempts)
    \/ Persistence

SpecPersist == InitFresh /\ [][NextPersist]_vars

\* Loads made one after the other once the app has started, each answered by
\* the network, without waiting for the store. The store settles the writes to
\* one key in the order they were issued: here a step that would put a second
\* write to a key in flight waits for the first to settle, and no write fails.
MaxStoreLoads == 2

NextStore ==
    LET InOrder(pend) == \A k \in KEYS : Cardinality(pend[k]) <= 1
        Idle          == startup.pc = "done" /\ Attempts = {}
    IN  \/ Startup
        \/ \E url \in PlaylistUrls : Idle /\ loadPlaylist(url) /\ Len(att') <= MaxStoreLoads
        \/ \E creds \in CredsInputs : Idle /\ loadXtream(creds) /\ Len(att') <= MaxStoreLoads
        \/ M3uAnswers(MaxStoreLoads) /\ InOrder(pending')
        \/ XtAnswers(MaxStoreLoads) /\ InOrder(pending')
        \/ \E k \in KEYS : WriteDone(k) /\ InOrder(pending')

SpecStore == InitFresh /\ [][NextStore]_vars

(***************************************************************************)
(* PlayerScreen: the player, its status listener and channel switching     *)
(***************************************************************************)
\* The channelList prop: the channels of the two playlists. Positions count
\* from 1 here and from 0 in the code.
ChannelList == Parsed[BodyOne].channels \o Parsed[BodyTwo].channels

\* What player.currentSrc reads as: the url of a channel, or nothing.
Sources == {ChannelList[i].url : i \in 1..Len(ChannelList)} \cup {""}

\* The message of an error the player or replaceAsync reports, "" for none.
PlayerMessages == {"", "HTTP 404", "Load aborted"}

\* A handler of the mounted screen runs to its end and the screen renders.
Rerender(next) ==
    /\ screen.mounted
    /\ screen' = next
    /\ UNCHANGED <<channels, categories, loading, error, currentUrl, currentXtream,
                   abortRef, store, pending, startup, att, lastOk, call>>

\* The first render of PlayerScreen on initialChannel, and its effects: the
\* listener is registered on the player with the isSwitching of this render.
\* Whether useVideoPlayer hands out a new player when its source changes is
\* the library's choice, the same throughout a run.
Mount(initialIndex, recreates) ==
    /\ ~screen.mounted
    /\ screen' = [mounted |-> TRUE, currentIndex |-> initialIndex, isBuffering |-> TRUE,
                  hasError |-> FALSE, errorMessage |-> "", isSwitching |-> FALSE,
                  expectedUrl |-> ChannelList[initialIndex].url, streamTimer |-> FALSE,
                  replacing |-> {}, recreates |-> recreates, listenerSwitching |-> FALSE,
                  events |-> 0]
    /\ UNCHANGED <<channels, categories, loading, error, currentUrl, currentXtream,
                   abortRef, store, pending, startup, att, lastOk, call>>

\* switchChannel(direction), up to its await, and the render that follows. The
\* effect that registers the listener depends on [player] alone: it runs again,
\* with the isSwitching of that render, only when the player is a new one.
switchChannel(direction) ==
    /\ ~screen.isSwitching
    /\ Len(ChannelList) # 0
    /\ LET length     == Len(ChannelList)
           newIndex   == IF direction = "next" THEN (screen.currentIndex % length) + 1
                         ELSE ((screen.currentIndex - 2 + length) % length) + 1
           newChannel == ChannelList[newIndex]
           newPlayer  == screen.recreates
                            /\ newChannel.url # ChannelList[screen.currentIndex].url
       IN  Rerender([screen EXCEPT !.currentIndex = newIndex,
                                   !.isBuffering = TRUE,
                                   !.hasError = FALSE,
                                   !.isSwitching = TRUE,
                                   !.errorMessage = "",
                                   !.expectedUrl = newChannel.url,
                                   !.replacing = @ \cup {"switch"},
                                   !.listenerSwitching = IF newPlayer THEN TRUE ELSE @])

\* handleRetry, up to its await; its button is on the error overlay.
handleRetry ==
    /\ screen.hasError
    /\ Rerender([screen EXCEPT !.isBuffering = TRUE,
                               !.hasError = FALSE,
                               !.isSwitching = FALSE,
                               !.errorMessage = "",
                               !.expectedUrl = ChannelList[screen.currentIndex].url,
                               !.replacing = @ \cup {"retry"}])

\* player.replaceAsync resolves and player.play() is called.
ReplaceResolved(caller) ==
    /\ caller \in screen.replacing
    /\ Rerender([screen EXCEPT !.replacing = @ \ {caller}])

\* player.replaceAsync rejects: the catch block of switchChannel or handleRetry.
ReplaceRejected(caller, message) ==
    /\ caller \in screen.replacing
    /\ LET msg == ToLowerCase(message)
       IN  IF Includes(msg, "abort") \/ Includes(msg, "cancel")
           THEN Rerender([screen EXCEPT !.replacing = @ \ {caller}])
           ELSE Rerender([screen EXCEPT !.replacing = @ \ {caller},
                                        !.isBuffering = FALSE,
                                        !.hasError = TRUE,
                                        !.isSwitching = IF caller = "switch" THEN FALSE ELSE @,
                                        !.errorMessage = IF message = "" THEN "Failed to load stream"
                                                         ELSE message])

\* The statusChange listener. Its isSwitching is the one of the render in which
\* it was registered; expectedUrl is a ref and is read when the event arrives.
\* events is the parity of the number of events delivered.
StatusChange(status, currentSource, message) ==
    LET delivered == [screen EXCEPT !.events = 1 - @]
    IN  CASE status = "readyToPlay" ->
                Rerender([delivered EXCEPT !.isBuffering = FALSE,
                                           !.hasError = FALSE,
                                           !.isSwitching = FALSE,
                                           !.streamTimer = FALSE])
          [] status = "loading" ->
                Rerender([delivered EXCEPT !.isBuffering = TRUE,
                                           !.streamTimer = TRUE])
          [] status = "error" ->
                IF screen.listenerSwitching /\ currentSource # screen.expectedUrl
                THEN Rerender(delivered)
                ELSE Rerender([delivered EXCEPT !.isBuffering = FALSE,
                                                !.hasError = TRUE,
                                                !.isSwitching = FALSE,
                                                !.errorMessage = IF message = "" THEN "Stream unavailable"
                                                                 ELSE message,
                                                !.streamTimer = FALSE])

\* The timer of startStreamTimeout fires. The dash of the code's message is
\* U+2014, written here as a hyphen.
StreamTimeout ==
    /\ screen.streamTimer
    /\ Rerender([screen EXCEPT !.isBuffering = FALSE,
                               !.hasError = TRUE,
                               !.isSwitching = FALSE,
                               !.errorMessage = "Stream timed out - the channel may be offline",
                               !.streamTimer = FALSE])

\* The user opens a channel, switches and retries; the player reports.
NextPlayer ==
    \/ \E initialIndex \in 1..Len(ChannelList), recreates \in BOOLEAN :
            Mount(initialIndex, recreates)
    \/ \E direction \in {"prev", "next"} : switchChannel(direction)
    \/ handleRetry
    \/ \E caller \in {"switch", "retry"} : ReplaceResolved(caller)
    \/ \E caller \in {"switch", "retry"}, message \in PlayerMessages :
            ReplaceRejected(caller, message)
    \/ \E status \in {"readyToPlay", "loading", "error"}, currentSource \in Sources,
          message \in PlayerMessages : StatusChange(status, currentSource, message)
    \/ StreamTimeout

SpecPlayer == InitFresh /\ [][NextPlayer]_vars

(***************************************************************************)
(* Direct calls of the pure functions, one per run, on inputs of their own *)
(***************************************************************************)
\* How long the provider's lists are in a direct call.
MaxListLen == 2

\* The sequences over set of length at most n.
RECURSIVE SeqsUpTo(_, _)
SeqsUpTo(set, n) ==
    IF n = 0 THEN {<<>>}
    ELSE LET shorter == SeqsUpTo(set, n - 1)
         IN  shorter \cup {Append(s, x) : s \in {t \in shorter : Len(t) = n - 1}, x \in set}

\* Categories with ids that repeat and names that can be empty; streams whose
\* category id may name no category.
MapCategories ==
    SeqsUpTo([category_id : {"1", "2"}, category_name : {"News", ""}], MaxListLen)

MapStreams ==
    SeqsUpTo({[stream_id |-> 7, name |-> "Seven", stream_icon |-> "", category_id |-> c]
                  : c \in {"1", "9"}}
             \cup {[stream_id |-> 8, name |-> "Eight", stream_icon |-> "http://l/8.png",
                    category_id |-> c] : c \in {"1", "9"}},
             MaxListLen)

\* Step 3 of loadXtreamChannels on the lists its two requests returned.
MapCall(rawCategories, rawStreams) ==
    /\ call.fn = ""
    /\ call' = [fn  |-> "loadXtreamChannels",
                arg |-> <<rawCategories, rawStreams>>,
                ret |-> Some(XtreamResult(CredsTyped, rawCategories, rawStreams))]
    /\ UNCHANGED hookVars

NextMapping == \E rawCategories \in MapCategories, rawStreams \in MapStreams :
                  MapCall(rawCategories, rawStreams)

SpecMapping == InitFresh /\ [][NextMapping]_vars

(***************************************************************************)
(* parseM3U called on playlist texts. A text is made of up to MaxLines     *)
(* lines of any kind, or of up to MaxEntries entries, an entry being a      *)
(* marker line and a url line, the last entry possibly with a comment and  *)
(* a blank line in place of its url. Each line is written down with what   *)
(* it is, and a marker line with the name and the group it spells.         *)
(***************************************************************************)
MaxLines == 3

MaxEntries == 3

MarkerLines ==
    {[text |-> "#EXTINF:-1 tvg-name=\" One \" group-title=\"news\",Ignored",
      kind |-> "marker", name |-> "One", group |-> "news"],
     [text |-> " #EXTINF:0 group-title=\"\",a, Channel Five \r",
      kind |-> "marker", name |-> "Channel Five", group |-> Uncategorized],
     [text |-> "#EXTINF: -1 tvg-name=\"\" group-title=\"Sport\",",
      kind |-> "marker", name |-> "Unknown", group |-> "Sport"],
     [text |-> "#EXTINF:-1 tvg-logo=\"http://l/4.png\",Four",
      kind |-> "marker", name |-> "Four", group |-> Uncategorized]}

UrlLines ==
    {[text |-> "http://h/1\r", kind |-> "url", name |-> "", group |-> ""],
     [text |-> " https://h/2", kind |-> "url", name |-> "", group |-> ""],
     [text |-> "ftp://h/3", kind |-> "url", name |-> "", group |-> ""]}

\* The lines of a sequence of entries.
RECURSIVE Flatten(_)
Flatten(entries) == IF Len(entries) = 0 THEN <<>> ELSE Head(entries) \o Flatten(Tail(entries))

Playlists ==
    LET comment   == [text |-> "#EXTINF:x,Bad", kind |-> "comment", name |-> "", group |-> ""]
        blank     == [text |-> " \r", kind |-> "blank", name |-> "", group |-> ""]
        entryUrls == {u \in UrlLines : ~StartsWith(u.text, " ")}
        unended   == {<<m, comment, blank>> : m \in {l \in MarkerLines : l.name = "One"}}
    IN  SeqsUpTo(MarkerLines \cup {comment, blank} \cup UrlLines, MaxLines)
            \cup {Flatten(entries) : entries \in SeqsUpTo(MarkerLines \X entryUrls, MaxEntries)}
            \cup {Flatten(entries) \o last :
                      entries \in SeqsUpTo(MarkerLines \X entryUrls, MaxEntries - 1),
                      last \in unended}

\* The text of a playlist: its lines joined by line feeds.
RECURSIVE Render(_)
Render(lines) ==
    IF Len(lines) = 0 THEN ""
    ELSE IF Len(lines) = 1 THEN lines[1].text
    ELSE lines[1].text \o "\n" \o Render(Tail(lines))

ParseCall(lines, collation) ==
    /\ call.fn = ""
    /\ call' = [fn  |-> "parseM3U",
                arg |-> <<lines, collation>>,
                ret |-> Some(parseM3U(Render(lines), collation))]
    /\ UNCHANGED hookVars

\* The urls fastHash is called on: a common stem, then up to MaxSuffixLen
\* characters, long enough for the 32-bit value to wrap and to turn negative.
MaxSuffixLen == 3

HashInputs ==
    LET RECURSIVE Concat(_)
        Concat(chars) == IF Len(chars) = 0 THEN "" ELSE Head(chars) \o Concat(Tail(chars))
    IN  {"http://h/" \o Concat(chars) : chars \in SeqsUpTo({"a", "Z", "9", "/", "~"}, MaxSuffixLen)}

HashCall(str) ==
    /\ call.fn = ""
    /\ call' = [fn |-> "fastHash", arg |-> str, ret |-> Some(fastHash(str))]
    /\ UNCHANGED hookVars

NextParser ==
    \/ \E lines \in Playlists, collation \in Collations : ParseCall(lines, collation)
    \/ \E str \in HashInputs : HashCall(str)

SpecParser == InitFresh /\ [][NextParser]_vars

(***************************************************************************)
(* Scheduling: what the event loop guarantees. A timer that is armed fires,*)
(* the rejection of an aborted request is delivered, and the storage reads *)
(* of startup settle. Nothing obliges the user to call the hook or the     *)
(* server to answer: a response's headers or body may never arrive.        *)
(***************************************************************************)
Scheduling ==
    /\ WF_vars(Startup)
    /\ \A a \in 1..MaxAttempts :
          /\ WF_vars(M3uTimeout(a))
          /\ WF_vars(M3uAborted(a))
          /\ \A r \in Requests : WF_vars(XtTimeout(a, r)) /\ WF_vars(XtAborted(a, r))

SpecLive == InitSession /\ [][NextSession]_vars /\ Scheduling

(***************************************************************************)
(* Properties of the ingestion orchestrator                                *)
(***************************************************************************)
\* Attempt a takes the step in which its finally block runs.
Settles(a) == a \in Attempts /\ att'[a].pc = "done"

\* C1: once a newer attempt has started, no step of an older playlist attempt
\* writes channels, categories or error.
C1_SupersededAttemptWritesNothing ==
    [][\A a \in 1..MaxLoads :
          (/\ a \in Attempts
           /\ a < Len(att)
           /\ att[a].kind = "m3u"
           /\ Len(att') = Len(att)
           /\ att'[a].pc # att[a].pc)
              => UNCHANGED <<channels, categories, error>>]_vars

\* C2: while error still shows the cancellation (no load has started since
\* cancelLoad), the settling of an attempt that was in flight at the cancel
\* leaves channels and categories as they were.
C2_CancelKeepsCommittedData ==
    [][(error = Some(ErrCancelled) /\ \E a \in 1..MaxLoads : Settles(a))
          => UNCHANGED <<channels, categories>>]_vars

\* C3: when cancelLoad has aborted a playlist attempt and error shows
\* 'Load cancelled', error still shows it after that attempt has settled.
C3_CancelledErrorPersists ==
    [][\A a \in 1..MaxLoads :
          (/\ a \in Attempts
           /\ att[a].kind = "m3u"
           /\ att[a].aborted
           /\ error = Some(ErrCancelled)
           /\ att'[a].pc = "done")
              => error' = Some(ErrCancelled)]_vars

\* C4: on the provider path a request rejected because the caller's signal was
\* aborted never leaves in error the value a request's own timer leaves there.
C4_AbortCausesDistinct ==
    [][\A a \in 1..MaxAttempts, r \in Requests :
          XtAborted(a, r) => error' # Some(ErrXtreamTimeout)]_vars

\* The store read at startup holds a channel list that is not empty.
CacheIsUsable(st) ==
    st["PLAYLIST_CHANNELS"] # Null /\ Len(st["PLAYLIST_CHANNELS"][1]) > 0

\* The step in which loadFromCache, all its reads done, takes one of its branches.
StartupBranches == startup.pc = "creds" /\ startup'.pc = "done" /\ error' # Some(ErrCache)

\* C5: on a cache hit startup publishes the cached channels and the cached
\* categories (or the empty list), clears loading, leaves error null and
\* starts no attempt.
C5_CacheHitIsReadyOffline ==
    [][(StartupBranches /\ CacheIsUsable(startup.cached)) =>
          /\ channels' = startup.cached["PLAYLIST_CHANNELS"][1]
          /\ categories' = IF startup.cached["PLAYLIST_CATEGORIES"] = Null THEN <<>>
                           ELSE startup.cached["PLAYLIST_CATEGORIES"][1]
          /\ loading' = FALSE
          /\ error' = Null
          /\ att' = <<>>]_vars

\* A cache hit with no category list stored, while credentials and a URL are.
C5_Witness ==
    /\ startup.pc = "done"
    /\ channels = Parsed[BodyOne].channels
    /\ categories = <<>>
    /\ ~loading
    /\ error = Null
    /\ att = <<>>
    /\ store["XTREAM_CREDENTIALS"] # Null
    /\ store["PLAYLIST_URL"] # Null

\* C6: with no usable cache, startup in provider mode with stored credentials
\* starts one provider attempt with them and no playlist fetch; otherwise, with
\* a stored URL, one attempt against that URL; otherwise none, and the hook is
\* idle. Startup never starts a second attempt.
C6_StartupPriority ==
    /\ [][(StartupBranches /\ ~CacheIsUsable(startup.cached)) =>
             LET creds == store["XTREAM_CREDENTIALS"]
                 url   == startup.cached["PLAYLIST_URL"]
             IN  IF startup.cached["CONNECTION_TYPE"] = Some("xtream") /\ creds # Null
                 THEN /\ Len(att') = 1
                      /\ att'[1].kind = "xtream"
                      /\ att'[1].creds = creds[1]
                      /\ att'[1].auth.st = "fetch"
                 ELSE IF url # Null /\ url[1] # ""
                 THEN /\ Len(att') = 1
                      /\ att'[1].url = url[1]
                      /\ att'[1].pc # "done"
                 ELSE /\ att' = <<>>
                      /\ loading' = FALSE
                      /\ channels' = <<>>
                      /\ categories' = <<>>
                      /\ error' = Null]_vars
    /\ [](Len(att) <= 1)

\* Provider mode without cached channels: the provider attempt is in flight
\* although a playlist URL is stored too.
C6_Witness ==
    /\ startup.pc = "done"
    /\ Len(att) = 1
    /\ att[1].kind = "xtream"
    /\ att[1].pc = "auth"
    /\ att[1].creds = CredsTyped
    /\ store["PLAYLIST_CHANNELS"] = Null
    /\ store["PLAYLIST_URL"] # Null

\* The credentials UrlX carries: scheme and host only as the server.
CredsOfUrlX == [server |-> "http://prov.example:8080", username |-> "alice", password |-> "s3cret"]

\* Further provider URLs and the credentials expected from each.
ProviderUrlCases ==
    {<<"https://h.example/player_api.php?password=p%40ss&username=bob",
       [server |-> "https://h.example", username |-> "bob", password |-> "p@ss"]>>,
     <<"http://10.0.0.1:25461/panel/get.php?username=u1&password=p1&type=m3u_plus&output=ts",
       [server |-> "http://10.0.0.1:25461", username |-> "u1", password |-> "p1"]>>}

ProviderUrlsClassified == \A c \in ProviderUrlCases : parseXtreamUrl(c[1]) = Some(c[2])

\* C7: an attempt started for a URL of the provider pattern with username and
\* password is a provider attempt with the credentials of the URL (server:
\* scheme and host only); no playlist fetch is made for it.
C7_ProviderUrlRoutesToProvider ==
    /\ ProviderUrlsClassified
    /\ \A a \in Attempts :
          att[a].url = UrlX => (att[a].kind = "xtream" /\ att[a].creds = CredsOfUrlX)

\* loadPlaylist(UrlX) has committed through the provider path.
C7_Witness ==
    /\ lastOk # Null
    /\ lastOk[1].kind = "xtream"
    /\ lastOk[1].creds = CredsOfUrlX
    /\ channels # <<>>

\* The bodies of the model that are empty, blank or hold no channel.
ZeroChannelBodies ==
    {b \in Bodies : b = "" \/ Trim(b) = "" \/ Len(Parsed[b].channels) = 0}

\* An attempt receives its last answer, and the answer holds no channel.
ZeroChannelAnswer(a) ==
    \/ \E b \in ZeroChannelBodies : M3uBody(a, b)
    \/ \E r \in {"cat", "str"}, rawCategories \in CategoryLists :
          XtListBody(a, r, rawCategories, <<>>) /\ att'[a].pc = "done"

\* C8: the channel list an attempt publishes is never empty, an attempt whose
\* answer holds no channel ends with an error and publishes nothing, and
\* channels, once not empty, is never empty again.
C8_NeverCommitsEmpty ==
    [][/\ channels # <<>> => channels' # <<>>
       /\ channels' # channels => channels' # <<>>
       /\ \A a \in 1..MaxAttempts :
             ZeroChannelAnswer(a) => (error' # Null /\ channels' = channels)]_vars

\* Cached channels survive a load whose body held no channel.
C8_Witness ==
    /\ channels # <<>>
    /\ error = Some(ErrNoChannels)
    /\ ~loading

\* C9: refresh starts an attempt against the source of the most recent load
\* that committed, and none when no load has committed.
C9_RefreshFollowsLastSuccess ==
    [][refresh =>
          IF lastOk = Null THEN att' = att
          ELSE /\ Len(att') = Len(att) + 1
               /\ att'[Len(att')].kind = lastOk[1].kind
               /\ att'[Len(att')].url = lastOk[1].url
               /\ att'[Len(att')].creds = lastOk[1].creds]_vars

\* C10: a background write that settles without reaching the store changes
\* neither error (null), nor loading (false), nor channels or categories.
C10_PersistFailureIsSilent ==
    [][\A k \in KEYS :
          (/\ store' = store
           /\ pending'[k] # pending[k]
           /\ pending'[k] \subseteq pending[k])
              => /\ UNCHANGED <<channels, categories, loading, error>>
                 /\ error' = Null
                 /\ loading' = FALSE]_vars

\* A committed load all of whose writes have settled, the channel write having
\* failed and the URL write having succeeded.
C10_Witness ==
    /\ channels # <<>>
    /\ error = Null
    /\ ~loading
    /\ \A k \in KEYS : pending[k] = {}
    /\ store["PLAYLIST_CHANNELS"] = Null
    /\ store["PLAYLIST_URL"] # Null

\* Attempt a takes a step in which something fails inside it: the network, the
\* HTTP status, the JSON decoding, the body, the channel count, the account or
\* an abort.
FailureIn(a) ==
    \/ \E status \in HttpStatuses : M3uHttpError(a, status)
    \/ M3uNetworkFailed(a)
    \/ M3uTimeout(a)
    \/ M3uAborted(a)
    \/ \E b \in ZeroChannelBodies : M3uBody(a, b)
    \/ \E r \in Requests :
          \/ \E status \in HttpStatuses : XtHttpError(a, r, status)
          \/ XtNetworkFailed(a, r)
          \/ XtTimeout(a, r)
          \/ XtAborted(a, r)
          \/ XtJsonFailed(a, r)
    \/ \E info \in {Null, Some("Banned")} : XtAuthBody(a, info)
    \/ ZeroChannelAnswer(a)

\* C11: every failure inside an attempt is caught: the attempt settles (the
\* promise of loadPlaylist, loadXtream or refresh resolves), error holds a
\* message that is not empty and loading is false.
C11_FailuresAreCaught ==
    [][\A a \in 1..MaxAttempts :
          FailureIn(a) => /\ att'[a] = Settled
                          /\ error' # Null
                          /\ error'[1] # ""
                          /\ loading' = FALSE]_vars

\* An undecodable JSON answer has been turned into a message.
C11_Witness ==
    /\ error = Some(JsonSyntaxError.message)
    /\ ~loading
    /\ Len(att) = 1
    /\ att[1] = Settled

\* C12: with timers firing and callbacks scheduled, loading never stays true
\* for ever, whatever the server does.
C12_LoadingEventuallyEnds == loading ~> ~loading

\* Provider attempt a takes the step in which fetchXtream publishes a result.
XtreamCommits(a) ==
    /\ a \in Attempts
    /\ att[a].kind = "xtream"
    /\ \E rawCategories \in CategoryLists, rawStreams \in StreamLists :
          CommitXtream(a, XtreamResultOf[att[a].creds, rawCategories, rawStreams])

\* Authentication of provider attempt a fails in this step.
AuthFails(a) ==
    \/ \E status \in HttpStatuses : XtHttpError(a, "auth", status)
    \/ XtNetworkFailed(a, "auth")
    \/ XtTimeout(a, "auth")
    \/ XtJsonFailed(a, "auth")
    \/ \E info \in {Null, Some("Banned")} : XtAuthBody(a, info)

\* The category or the stream request of provider attempt a fails in this step.
ListFails(a) ==
    \E r \in {"cat", "str"} :
        \/ \E status \in HttpStatuses : XtHttpError(a, r, status)
        \/ XtNetworkFailed(a, r)
        \/ XtTimeout(a, r)
        \/ XtJsonFailed(a, r)

\* C13: in a provider attempt the category and stream requests exist only
\* after authentication has succeeded and are issued together in one step; a
\* failed authentication issues neither; a result is published only in the
\* step that completes the second of the two lists; a failure of either list
\* fails the attempt and publishes nothing.
C13_ProviderOrdering ==
    /\ [](\A a \in Attempts :
            att[a].kind = "xtream" =>
                /\ (att[a].cat.st = "none") <=> (att[a].str.st = "none")
                /\ att[a].pc = "auth" => (att[a].cat.st = "none" /\ att[a].auth.st # "none")
                /\ att[a].cat.st # "none" => (att[a].pc = "fetching" /\ att[a].auth.st = "none"))
    /\ [][\A a \in 1..MaxAttempts :
            /\ (a \in Attempts /\ att[a].pc = "auth" /\ att'[a].pc = "fetching")
                  => (att'[a].cat.st = "fetch" /\ att'[a].str.st = "fetch")
            /\ AuthFails(a)
                  => (att'[a] = Settled /\ UNCHANGED <<channels, categories, lastOk>>)
            /\ XtreamCommits(a)
                  => {att[a].cat.st, att[a].str.st} = {"ok", "json"}
            /\ ListFails(a)
                  => /\ att'[a] = Settled
                     /\ error' # Null
                     /\ UNCHANGED <<channels, categories, lastOk, pending>>]_vars

\* Both lists have arrived after a successful authentication and the result
\* is published.
C13_Witness ==
    /\ Len(att) = 1
    /\ att[1] = Settled
    /\ lastOk # Null
    /\ lastOk[1].kind = "xtream"
    /\ lastOk[1].creds = CredsTyped
    /\ channels # <<>>
    /\ error = Null

\* The 'invalid server' kind of error: a message of the client's own that
\* blames the server's answer.
IsInvalidServerError(message) ==
    message = ErrInvalidServer \/ StartsWith(message, "Server returned ")

\* C14: authentication succeeds exactly when the answer holds a user_info
\* whose status is 'Active'; another status fails with a message that holds
\* the status and is not of the 'invalid server' kind; a non-success HTTP
\* status and an undecodable body each fail with the 'invalid server' kind.
C14_AuthenticateOutcomes ==
    [][\A a \in 1..MaxAttempts :
          /\ \A info \in UserInfos :
                XtAuthBody(a, info) =>
                    /\ (att'[a].pc = "fetching") <=> (info = Some("Active"))
                    /\ (info # Null /\ info # Some("Active")) =>
                           /\ Includes(error'[1], info[1])
                           /\ ~IsInvalidServerError(error'[1])
          /\ ((\E status \in HttpStatuses : XtHttpError(a, "auth", status))
                 \/ XtJsonFailed(a, "auth")) =>
                    (error' # Null /\ IsInvalidServerError(error'[1]))]_vars

MarkerPositions(lines) == {m \in 1..Len(lines) : lines[m].kind = "marker"}

\* C16: every channel parseM3U emits has a url that starts with http:// or
\* https://, carries the name and group of a marker line of the input with its
\* url on a later line, and there are no more channels than marker lines.
C16_ParserValidityGate ==
    call.fn = "parseM3U" =>
        LET lines == call.arg[1]
            out   == call.ret[1].channels
        IN  /\ \A k \in 1..Len(out) :
                  /\ \/ SubSeq(out[k].url \o "        ", 1, 7) = "http://"
                     \/ SubSeq(out[k].url \o "        ", 1, 8) = "https://"
                  /\ \E m \in MarkerPositions(lines) :
                        /\ out[k].name = lines[m].name
                        /\ out[k].group = lines[m].group
                        /\ \E u \in (m + 1)..Len(lines) :
                              /\ lines[u].kind = "url"
                              /\ Trim(lines[u].text) = out[k].url
            /\ Len(out) <= Cardinality(MarkerPositions(lines))

\* A playlist of two marker lines and an https url after them, and the one
\* channel parseM3U made of it.
C16_Witness ==
    /\ call.fn = "parseM3U"
    /\ Len(call.arg[1]) = 3
    /\ Cardinality(MarkerPositions(call.arg[1])) = 2
    /\ call.arg[1][3].text = " https://h/2"
    /\ Len(call.ret[1].channels) = 1
    /\ call.ret[1].channels[1].url = "https://h/2"

\* The categories parseM3U returned, and those of them that are not the
\* default group.
ReturnedCategories == call.ret[1].categories

NamedPairs ==
    {p \in (1..Len(ReturnedCategories)) \X (1..Len(ReturnedCategories)) :
        p[1] < p[2] /\ ReturnedCategories[p[2]] # Uncategorized}

\* C17, as amended: the category list parseM3U returns has no duplicates, has
\* 'Uncategorized' last whenever it is present, and lists the other categories
\* in ascending order of the engine's localeCompare.
C17_CategoriesInCollationOrder ==
    call.fn = "parseM3U" =>
        /\ \A i, j \in 1..Len(ReturnedCategories) :
              i # j => ReturnedCategories[i] # ReturnedCategories[j]
        /\ \A i \in 1..Len(ReturnedCategories) :
              ReturnedCategories[i] = Uncategorized => i = Len(ReturnedCategories)
        /\ \A p \in NamedPairs :
              localeCompareLess(call.arg[2], ReturnedCategories[p[1]], ReturnedCategories[p[2]])

\* C17, as stated: the other categories are in ascending case-sensitive
\* order, upper case before lower case as the character codes are.
C17_CategoriesInCodeUnitOrder ==
    call.fn = "parseM3U" =>
        \A p \in NamedPairs : StrLess(ReturnedCategories[p[1]], ReturnedCategories[p[2]])

\* Three entries of groups Sport, none and news, parsed on an engine that
\* collates: news comes before Sport, and Uncategorized last.
C17_Witness ==
    /\ call.fn = "parseM3U"
    /\ call.arg[2] = "icu"
    /\ Len(call.ret[1].channels) = 3
    /\ call.ret[1].channels[1].group = "Sport"
    /\ call.ret[1].channels[2].group = Uncategorized
    /\ ReturnedCategories = <<"news", "Sport", Uncategorized>>

\* The marker line an emitted channel was made of: the marker lines of the
\* playlists spell different names.
OriginOf(channel) == CHOOSE m \in MarkerLines : m.name = channel.name

\* C18: every channel parseM3U emits has a non-empty group, 'Uncategorized'
\* when its marker line has no group attribute or an empty one; the group of
\* every channel is in categories; and every category is the group of an
\* emitted channel.
C18_GroupsAndCategoriesAgree ==
    call.fn = "parseM3U" =>
        LET out == call.ret[1].channels
        IN  /\ \A k \in 1..Len(out) :
                  /\ out[k].group # ""
                  /\ out[k].group = OriginOf(out[k]).group
                  /\ \E c \in 1..Len(ReturnedCategories) : ReturnedCategories[c] = out[k].group
            /\ \A c \in 1..Len(ReturnedCategories) :
                  \E k \in 1..Len(out) : out[k].group = ReturnedCategories[c]

\* Three entries: group news with an http url, group Sport with an ftp url,
\* no group attribute with an http url. Two channels, and Sport is no category.
C18_Witness ==
    /\ call.fn = "parseM3U"
    /\ Len(call.arg[1]) = 6
    /\ call.arg[1][3].group = "Sport"
    /\ call.arg[1][5].name = "Four"
    /\ Len(call.ret[1].channels) = 2
    /\ call.ret[1].channels[2].group = Uncategorized
    /\ ReturnedCategories = <<"news", Uncategorized>>

\* C19: the name of an emitted channel is the tvg-name attribute of its
\* marker line when there is one with a value; otherwise the trimmed text
\* after the last comma of the line; and 'Unknown' when that text is empty.
C19_DisplayNameResolution ==
    call.fn = "parseM3U" =>
        LET lines == call.arg[1]
            out   == call.ret[1].channels
        IN  /\ \A k \in 1..Len(out) : \E m \in MarkerLines : out[k].name = m.name
            /\ \A m \in MarkerLines :
                  Len(lines) = 2 /\ lines[1] = m /\ lines[2].text = "http://h/1\r" =>
                      /\ Len(out) = 1
                      /\ out[1].name = m.name
                      /\ out[1].name =
                            IF m.text = "#EXTINF:-1 tvg-name=\" One \" group-title=\"news\",Ignored"
                                THEN "One"
                            ELSE IF m.text = " #EXTINF:0 group-title=\"\",a, Channel Five \r"
                                THEN "Channel Five"
                            ELSE IF m.text = "#EXTINF: -1 tvg-name=\"\" group-title=\"Sport\","
                                THEN "Unknown"
                            ELSE "Four"

\* Three entries: one named by its attribute, one by the text after the last
\* of its two commas, one by nothing.
C19_Witness ==
    /\ call.fn = "parseM3U"
    /\ Len(call.ret[1].channels) = 3
    /\ call.ret[1].channels[1].name = "One"
    /\ call.ret[1].channels[2].name = "Channel Five"
    /\ call.ret[1].channels[3].name = "Unknown"

\* The marker lines of a playlist that only blank and comment lines follow,
\* up to the end of the text.
Unended(lines) ==
    {m \in MarkerPositions(lines) :
        \A u \in (m + 1)..Len(lines) : lines[u].kind \in {"blank", "comment"}}

\* C20: parseM3U returns a result for every playlist; a marker line that only
\* blank and comment lines follow gives no channel, and the channels are those
\* of the text before that marker line.
C20_ParserNeverFails ==
    call.fn = "parseM3U" =>
        LET lines == call.arg[1]
            out   == call.ret[1].channels
        IN  /\ call.ret # Null
            /\ \A m \in Unended(lines) :
                  /\ Len(out) <= Cardinality(MarkerPositions(lines) \ {m})
                  /\ out = parseM3U(Render(SubSeq(lines, 1, m - 1)), call.arg[2]).channels

\* Two entries, then a marker line with a comment and a blank line after it:
\* the channels of the two entries are returned.
C20_Witness ==
    /\ call.fn = "parseM3U"
    /\ Len(call.arg[1]) = 7
    /\ 5 \in Unended(call.arg[1])
    /\ call.arg[1][6].kind = "comment"
    /\ call.arg[1][7].kind = "blank"
    /\ Len(call.ret[1].channels) = 2
    /\ call.ret[1].channels[1].name = "Four"
    /\ call.ret[1].channels[2].name = "Channel Five"

\* The ids of some urls, computed outside the model from the definition:
\* h = 0, then h = 31 * h + c modulo 2^32 as a signed integer for each code
\* unit c, and |h| written in base 36.
KnownIds ==
    [u \in {"http://h/", "http://h/a", "http://h/Z", "http://h/9~", "http://h/ZZ",
            "http://h//a9", "http://h/~~~", "http://h/aZ9", "http://h/9/~"} |->
        CASE u = "http://h/"    -> "2dgvvd"
          [] u = "http://h/a"   -> "2kfe3s"
          [] u = "http://h/Z"   -> "2kfe3l"
          [] u = "http://h/9~"  -> "8k52f2"
          [] u = "http://h/ZZ"  -> "8k536h"
          [] u = "http://h//a9" -> "is3d02"
          [] u = "http://h/~~~" -> "is1pob"
          [] u = "http://h/aZ9" -> "is2c3d"
          [] u = "http://h/9/~" -> "is36q9"]

\* s is what toString(36) gives for an integer of 0..2^31 (2^31 is zik0zk).
IsBase36UpTo2Pow31(s) ==
    /\ Len(s) \in 1..6
    /\ \A i \in 1..Len(s) : Includes("0123456789abcdefghijklmnopqrstuvwxyz", CharAt(s, i))
    /\ Len(s) > 1 => CharAt(s, 1) # "0"
    /\ Len(s) = 6 => (s = "zik0zk" \/ StrLess(s, "zik0zk"))

\* C21: the id of a channel is a function of its url alone, the base-36
\* rendering of |h| for the 32-bit hash h of the url, a value of 0..2^31; two
\* channels of one parse with the same url have the same id.
C21_IdIsHashOfUrl ==
    /\ call.fn = "fastHash" =>
          /\ IsBase36UpTo2Pow31(call.ret[1])
          /\ call.arg \in DOMAIN KnownIds => call.ret[1] = KnownIds[call.arg]
    /\ call.fn = "parseM3U" =>
          LET out == call.ret[1].channels
          IN  \A k, l \in 1..Len(out) :
                 /\ IsBase36UpTo2Pow31(out[k].id)
                 /\ out[k].url = "http://h/1" => out[k].id = "2kfe2g"
                 /\ out[k].url = "https://h/2" => out[k].id = "202sis"
                 /\ out[k].url = out[l].url => out[k].id = out[l].id

\* A url whose hash has wrapped to a negative value (-1135500347): the id is
\* the rendering of its absolute value.
C21_Witness ==
    /\ call.fn = "fastHash"
    /\ call.arg = "http://h/~~~"
    /\ call.ret = <<"is1pob">>

(***************************************************************************)
(* Properties of the provider's category list                              *)
(***************************************************************************)
\* C22: the categories loadXtreamChannels returns hold each name at most once,
\* whatever list of categories the server returned.
C22_ProviderCategoriesDistinct ==
    call.fn = "loadXtreamChannels" =>
        \A i, j \in 1..Len(call.ret[1].categories) :
            i # j => call.ret[1].categories[i] # call.ret[1].categories[j]

(***************************************************************************)
(* Properties of attempts that overlap                                     *)
(***************************************************************************)
\* C23: when an older attempt settles while the most recently started attempt
\* has neither settled nor been aborted, loading stays true and abortRef stays
\* that attempt's controller.
C23_OlderSettlingKeepsSession ==
    [][\A a \in 1..MaxLoads :
          (/\ Settles(a)
           /\ a < Len(att)
           /\ InFlight(Len(att))
           /\ ~att[Len(att)].aborted)
              => (loading' /\ abortRef' = Len(att))]_vars

\* C24: once the controller of a provider attempt is aborted, every request of
\* the attempt created afterwards is aborted with it, and the attempt commits
\* nothing and persists nothing.
C24_AbortReachesLaterSteps ==
    [][\A a \in 1..MaxAttempts :
          (a \in Attempts /\ att[a].kind = "xtream" /\ att[a].aborted) =>
              /\ \A r \in Requests :
                    (att[a][r].st = "none" /\ att'[a][r].st = "fetch") => att'[a][r].linked
              /\ Settles(a) => UNCHANGED <<channels, categories, currentXtream, pending>>]_vars

(***************************************************************************)
(* Frame conditions                                                        *)
(***************************************************************************)
\* C25: the step in which an attempt ends in a failure leaves channels,
\* categories, the remembered url and credentials, the store and the writes
\* in flight as they were; and no earlier step of such an attempt changed
\* them, every step before the last one being a move to the next await.
C25_FailureChangesStatusOnly ==
    [][\A a \in 1..MaxAttempts :
          /\ FailureIn(a) =>
                UNCHANGED <<channels, categories, currentUrl, currentXtream, store, pending>>
          /\ (/\ a \in Attempts
              /\ [att'[a] EXCEPT !.aborted = att[a].aborted] # att[a]
              /\ ~Settles(a)) =>
                UNCHANGED <<channels, categories, currentUrl, currentXtream, store, pending>>]_vars

\* A load that failed on an empty body after startup had restored the cached
\* playlist: the restored channels and url are still there.
C25_Witness ==
    /\ Len(att) = 1
    /\ att[1] = Settled
    /\ error = Some(ErrEmptyBody)
    /\ ~loading
    /\ channels = Parsed[BodyOne].channels
    /\ categories = Parsed[BodyOne].categories
    /\ currentUrl = Some(UrlA)

(***************************************************************************)
(* Properties of the persisted state                                       *)
(***************************************************************************)
\* C26: once the loads have committed and every write has settled, the store
\* holds the channels and categories in memory and the mode and source of the
\* last load that committed.
C26_StoreMatchesLastCommit ==
    (/\ startup.pc = "done"
     /\ Attempts = {}
     /\ \A k \in KEYS : pending[k] = {}
     /\ lastOk # Null) =>
        /\ store["PLAYLIST_CHANNELS"] = Some(channels)
        /\ store["PLAYLIST_CATEGORIES"] = Some(categories)
        /\ getConnectionType(store) = lastOk[1].kind
        /\ lastOk[1].kind = "m3u" => store["PLAYLIST_URL"] = Some(lastOk[1].url)
        /\ lastOk[1].kind = "xtream" => store["XTREAM_CREDENTIALS"] = Some(lastOk[1].creds)

(***************************************************************************)
(* Properties of the pairing of marker lines and urls                      *)
(***************************************************************************)
\* C27: every channel parseM3U emits carries the name and group of the marker
\* line that most closely precedes its url line, so a marker line without a
\* url of its own is not paired with the url of a later marker line.
C27_UrlPairsWithNearestMarker ==
    call.fn = "parseM3U" =>
        LET lines == call.arg[1]
            out   == call.ret[1].channels
        IN  \A k \in 1..Len(out) :
               \E u \in 1..Len(lines) :
                  /\ lines[u].kind = "url"
                  /\ Trim(lines[u].text) = out[k].url
                  /\ \E m \in MarkerPositions(lines) :
                        /\ m < u
                        /\ \A n \in MarkerPositions(lines) : n < u => n <= m
                        /\ out[k].name = lines[m].name
                        /\ out[k].group = lines[m].group

(***************************************************************************)
(* Properties of startup against the user's operations                     *)
(***************************************************************************)
\* C28: when loadFromCache resumes after loadPlaylist or loadXtream was
\* called, it leaves channels, categories and the remembered source as that
\* load committed them, aborts no attempt and starts none.
C28_StartupLeavesUserLoadAlone ==
    [][(Startup /\ Len(att) > 0) =>
          /\ lastOk # Null => UNCHANGED <<channels, categories, currentUrl, currentXtream>>
          /\ att' = att]_vars

(***************************************************************************)
(* Properties of cancelLoad                                                *)
(***************************************************************************)
\* C29: cancelLoad called when startup is over, nothing is loading and
\* abortRef holds no controller leaves error, loading, channels and categories
\* as they are.
C29_CancelWithoutAttemptIsNoOp ==
    [][(cancelLoad /\ abortRef = 0 /\ ~loading /\ startup.pc = "done")
          => UNCHANGED <<error, loading, channels, categories>>]_vars

(***************************************************************************)
(* Properties of the player's status listener                              *)
(***************************************************************************)
\* C30: while a switch is in progress (isSwitching set), a statusChange
\* 'error' event whose source is not expectedUrl changes none of hasError,
\* errorMessage and isSwitching; the listener decides this on the value
\* isSwitching has when the event arrives, so an error event that arrives
\* outside a switch, or from the expected url, is shown.
C30_StaleErrorsDiscarded ==
    [][\A currentSource \in Sources, message \in PlayerMessages :
          StatusChange("error", currentSource, message) =>
              IF screen.isSwitching /\ currentSource # screen.expectedUrl
              THEN /\ screen'.hasError = screen.hasError
                   /\ screen'.errorMessage = screen.errorMessage
                   /\ screen'.isSwitching = screen.isSwitching
              ELSE /\ screen'.hasError
                   /\ ~screen'.isSwitching
                   /\ screen'.errorMessage = (IF message = "" THEN "Stream unavailable" ELSE message)]_vars

====
